---- MODULE Spec2Model ----
(***************************************************************************)
(* A model of advanced-vector/vector.h: RawMemory<T> (an owned block of    *)
(* raw slots) and Vector<T> (a RawMemory plus the count of live elements). *)
(* Every public operation of Vector is one action; the element-level       *)
(* steps it performs (placement construction, assignment, destruction,     *)
(* allocation, release) are recorded in `log`, in the order the code       *)
(* performs them.                                                          *)
(***************************************************************************)
EXTENDS Integers, Sequences, FiniteSets, TLC

\* ------------------------------------------------------------------ bounds
\* No operation is started that would make a capacity larger than this.
MaxCap == 4
\* The same bound where two vectors are used together.
PairCap == 2
\* Blocks the allocator can hand out at the same time.
NumBlocks == 3

\* ------------------------------------------------------------- value domain
\* Values the caller passes in.
Values == {"", "x"}
\* The value of a value-initialised T (T()).
Default == ""
\* The (valid but unspecified) value an element has after it was moved from.
Moved == "moved"
\* What a slot holds when no element lives in it.
Garbage == "garbage"

Vecs == {"A", "B"}
\* RawMemory objects used without a Vector around them.
Mems == {"M", "N"}
BlockIds == 1..NumBlocks
\* T* buffer_ = nullptr
Null == 0

\* The element types the template is instantiated with: the two traits the
\* transfer rule asks for.
ElemTypes ==
    { [nothrow_move |-> TRUE,  copyable |-> TRUE],
      [nothrow_move |-> FALSE, copyable |-> TRUE],
      [nothrow_move |-> FALSE, copyable |-> FALSE] }

VARIABLES
    T,      \* the element type's traits (fixed by the instantiation)
    heap,   \* block id -> [alloc, slots]: the memory operator new handed out
    vec,    \* vector name -> [exists, buffer_, capacity_, size_]
    last,   \* the call that ran last: its name, arguments and outcome
    log,    \* the element-level steps of the call that ran last, in order
    appended, \* vector name -> it was created empty and only appended to since
    mem     \* RawMemory name -> [exists, buffer_, capacity_]: storage objects on their own

vars == <<T, heap, vec, last, log, appended, mem>>

RawSlot == [st |-> "raw", val |-> Garbage]
LiveSlot(v) == [st |-> "live", val |-> v]
NoBlock == [alloc |-> FALSE, slots |-> <<>>]

\* -------------------------------------------------------------- the machine
\* The state a call works on: the heap, the steps so far, the number of
\* element operations that may throw executed so far, and whether an
\* exception is in flight.
\* asif: what an assignment to a slot without a live element leaves there.
Machine(h, asif) == [heap |-> h, log |-> <<>>, n |-> 0, thrown |-> FALSE, asif |-> asif]

Ev(t, b, i, ok) == [t |-> t, b |-> b, i |-> i, ok |-> ok]

SlotAt(h, b, i) == h[b].slots[i + 1]

IsLive(h, b, i) == SlotAt(h, b, i).st = "live"

\* std::is_nothrow_move_constructible_v<T> || !std::is_copy_constructible_v<T>
UseMove == T.nothrow_move \/ ~T.copyable

\* static T* Allocate(size_t n): nullptr for n = 0, else a fresh block.
FreeBlock(h) == CHOOSE b \in BlockIds : ~h[b].alloc /\ \A c \in BlockIds : ~h[c].alloc => b <= c

\* thr = -1: operator new throws std::bad_alloc.
Allocate(m, thr, b, n) ==
    IF n = 0 THEN m
    ELSE IF thr = -1
         THEN [m EXCEPT !.thrown = TRUE, !.log = Append(@, Ev("bad_alloc", b, n, TRUE))]
         ELSE [m EXCEPT !.heap[b] = [alloc |-> TRUE, slots |-> [i \in 1..n |-> RawSlot]],
                        !.log = Append(@, Ev("alloc", b, n, TRUE))]

\* explicit RawMemory(size_t capacity): the buffer the new object gets.
BufferOf(h, n) == IF n = 0 THEN Null ELSE FreeBlock(h)

LiveCount(h, b) == Cardinality({i \in 1..Len(h[b].slots) : h[b].slots[i].st = "live"})

\* static void Deallocate(T* buf): operator delete; the event records how many
\* elements were still alive in the block (they are never destroyed).
Deallocate(m, b) ==
    IF b = Null THEN m
    ELSE [m EXCEPT !.heap[b] = NoBlock,
                   !.log = Append(@, Ev("dealloc", b, LiveCount(m.heap, b), LiveCount(m.heap, b) = 0))]

\* The step numbered thr among those that may throw is the one that throws.
Throws(m, thr, may) == may /\ m.n + 1 = thr

Counted(m, may) == IF may THEN m.n + 1 ELSE m.n

Raise(m, b, i) ==
    [m EXCEPT !.n = @ + 1, !.thrown = TRUE, !.log = Append(@, Ev("throw", b, i, TRUE))]

\* Whether an element operation of T may throw. Construction from arguments,
\* copy construction, value construction and copy assignment may; move
\* construction and move assignment may unless T's moves are declared noexcept.
MayThrow(how) ==
    IF how \in {"move", "move_assign"} THEN ~T.nothrow_move ELSE TRUE

\* new (p) T(...): placement construction of value v in slot i of block b.
\* ok: the slot was raw and the source (if any) was a live element.
ConstructAt(m, thr, b, i, v, how, srcok) ==
    IF Throws(m, thr, MayThrow(how)) THEN Raise(m, b, i)
    ELSE [m EXCEPT !.heap[b].slots[i + 1] = LiveSlot(v),
                   !.n = Counted(m, MayThrow(how)),
                   !.log = Append(@, Ev(how, b, i, srcok /\ ~IsLive(m.heap, b, i)))]

\* new (p) T(*src): copy construction from slot si of block sb.
CopyConstructAt(m, thr, sb, si, db, di) ==
    ConstructAt(m, thr, db, di, SlotAt(m.heap, sb, si).val, "copy", IsLive(m.heap, sb, si))

\* new (p) T(std::move(*src)): the source keeps its lifetime, not its value.
MoveConstructAt(m, thr, sb, si, db, di) ==
    LET m1 == ConstructAt(m, thr, db, di, SlotAt(m.heap, sb, si).val, "move", IsLive(m.heap, sb, si))
    IN  IF m1.thrown THEN m1 ELSE [m1 EXCEPT !.heap[sb].slots[si + 1].val = Moved]

\* *p = v: assignment to slot i of block b. Assigning to a slot whose element
\* was destroyed is undefined: the slot stays without a live element and
\* holds either the assigned value (asif) or garbage.
AssignAt(m, thr, b, i, v, how, srcok) ==
    IF Throws(m, thr, MayThrow(how)) THEN Raise(m, b, i)
    ELSE LET live == IsLive(m.heap, b, i)
             nv == IF live \/ m.asif THEN v ELSE Garbage
         IN  [m EXCEPT !.heap[b].slots[i + 1].val = nv,
                       !.n = Counted(m, MayThrow(how)),
                       !.log = Append(@, Ev(how, b, i, srcok /\ live))]

\* *dst = *src
CopyAssignAt(m, thr, sb, si, db, di) ==
    AssignAt(m, thr, db, di, SlotAt(m.heap, sb, si).val, "copy_assign", IsLive(m.heap, sb, si))

\* *dst = std::move(*src)
MoveAssignAt(m, thr, sb, si, db, di) ==
    LET m1 == AssignAt(m, thr, db, di, SlotAt(m.heap, sb, si).val, "move_assign", IsLive(m.heap, sb, si))
    IN  IF m1.thrown THEN m1 ELSE [m1 EXCEPT !.heap[sb].slots[si + 1].val = Moved]

\* data_.Swap(new_data): from here on block b is the vector's storage, and
\* the block it had is released when new_data goes out of scope.
SwapStorage(m, b) == [m EXCEPT !.log = Append(@, Ev("swap", b, 0, TRUE))]

\* std::destroy_at(p)
DestroyAt(m, b, i) ==
    [m EXCEPT !.heap[b].slots[i + 1] = RawSlot,
              !.log = Append(@, Ev("destroy", b, i, IsLive(m.heap, b, i)))]

\* std::destroy_n(p, n)
RECURSIVE DestroyN(_, _, _, _)
RECURSIVE CopyNShort(_, _, _, _, _, _, _, _)
DestroyN(m, b, i, n) ==
    IF n <= 0 THEN m ELSE DestroyN(DestroyAt(m, b, i), b, i + 1, n - 1)

\* std::uninitialized_copy_n / std::uninitialized_move_n: construct n elements
\* from (sb, si..) in (db, di..); when one throws, the ones this call
\* constructed are destroyed and the exception goes on.
RECURSIVE UninitializedN(_, _, _, _, _, _, _, _, _)
UninitializedN(m, thr, mv, sb, si, n, db, di, j) ==
    IF j >= n THEN m
    ELSE LET m1 == IF mv THEN MoveConstructAt(m, thr, sb, si + j, db, di + j)
                         ELSE CopyConstructAt(m, thr, sb, si + j, db, di + j)
         IN  IF m1.thrown THEN DestroyN(m1, db, di, j)
             ELSE UninitializedN(m1, thr, mv, sb, si, n, db, di, j + 1)

UninitializedCopyN(m, thr, sb, si, n, db, di) ==
    UninitializedN(m, thr, FALSE, sb, si, n, db, di, 0)

UninitializedMoveN(m, thr, sb, si, n, db, di) ==
    UninitializedN(m, thr, TRUE, sb, si, n, db, di, 0)

\* A transfer rule that moves whatever the traits of T are.
TransferByMove(m, thr, sb, si, n, db, di) ==
    UninitializedMoveN(m, thr, sb, si, n, db, di)

\* A transfer rule that copies whatever the traits of T are.
TransferByCopy(m, thr, sb, si, n, db, di) ==
    UninitializedCopyN(m, thr, sb, si, n, db, di)

\* The transfer rule: existing elements are moved when T's move is noexcept
\* or T cannot be copied, and copied otherwise.
Transfer(m, thr, sb, si, n, db, di) ==
    IF UseMove THEN UninitializedMoveN(m, thr, sb, si, n, db, di)
    ELSE UninitializedCopyN(m, thr, sb, si, n, db, di)

\* std::uninitialized_value_construct_n(p, n), with the same rollback.
RECURSIVE UninitializedValueConstructN(_, _, _, _, _, _)
UninitializedValueConstructN(m, thr, b, i, n, j) ==
    IF j >= n THEN m
    ELSE LET m1 == ConstructAt(m, thr, b, i + j, Default, "value", TRUE)
         IN  IF m1.thrown THEN DestroyN(m1, b, i, j)
             ELSE UninitializedValueConstructN(m1, thr, b, i, n, j + 1)

\* A copy_n that stops one element short.
CopyNShort(m, thr, sb, si, n, db, di, j) ==
    IF j >= n - 1 THEN m
    ELSE LET m1 == CopyAssignAt(m, thr, sb, si + j, db, di + j)
         IN  IF m1.thrown THEN m1 ELSE CopyNShort(m1, thr, sb, si, n, db, di, j + 1)

\* std::copy_n(src, n, dst): n copy assignments, first to last.
RECURSIVE CopyN(_, _, _, _, _, _, _, _)
CopyN(m, thr, sb, si, n, db, di, j) ==
    IF j >= n THEN m
    ELSE LET m1 == CopyAssignAt(m, thr, sb, si + j, db, di + j)
         IN  IF m1.thrown THEN m1 ELSE CopyN(m1, thr, sb, si, n, db, di, j + 1)

\* std::move(first, last, d_first) inside block b: move assignments, first to last.
RECURSIVE MoveRange(_, _, _, _, _, _)
MoveRange(m, thr, b, first, lst, d) ==
    IF first >= lst THEN m
    ELSE LET m1 == MoveAssignAt(m, thr, b, first, b, d)
         IN  IF m1.thrown THEN m1 ELSE MoveRange(m1, thr, b, first + 1, lst, d + 1)

\* A shift to the right that walks the range first to last, as std::move does.
MoveForward(m, thr, b, first, lst, dlast) ==
    MoveRange(m, thr, b, first, lst, dlast - (lst - first))

\* std::move_backward(first, last, d_last) inside block b: last to first.
RECURSIVE MoveBackward(_, _, _, _, _, _)
MoveBackward(m, thr, b, first, lst, dlast) ==
    IF first >= lst THEN m
    ELSE LET m1 == MoveAssignAt(m, thr, b, lst - 1, b, dlast - 1)
         IN  IF m1.thrown THEN m1 ELSE MoveBackward(m1, thr, b, first, lst - 1, dlast - 1)

\* ------------------------------------------------- the operations of Vector
\* What a call leaves: the machine, the vector's fields, the iterator it
\* returns (block, index) and whether it took the reallocating path.
NoRet == [b |-> Null, i |-> 0]
Outcome(m, S, ret, realloc) == [m |-> m, vec |-> S, ret |-> ret, realloc |-> realloc]

\* What a call is given to construct the new element from: an object
\* outside every block (b = Null, with its value), or a reference to slot i
\* of block b, read when the code reads it.
Outside(v) == [b |-> Null, i |-> 0, val |-> v]
ElemRef(b, i) == [b |-> b, i |-> i, val |-> ""]

Deref(m, value) ==
    IF value.b = Null THEN value.val ELSE SlotAt(m.heap, value.b, value.i).val

\* The object referred to is alive when it is read.
ArgLive(m, value) ==
    value.b = Null \/ (m.heap[value.b].alloc /\ IsLive(m.heap, value.b, value.i))

\* A growth policy that adds one slot instead of doubling.
GrowByOne(size) == size + 1

\* size_ == 0 ? 1 : size_ * 2
GrowCapacity(size) == IF size = 0 THEN 1 ELSE size * 2

\* The temporary `T copy(args...)` of Emplace lives on the stack: its
\* construction and destruction are steps, its block is Null.
TempConstruct(m, thr, value) ==
    IF Throws(m, thr, TRUE) THEN Raise(m, Null, 0)
    ELSE [m EXCEPT !.n = @ + 1, !.log = Append(@, Ev("emplace", Null, 0, ArgLive(m, value)))]

TempDestroy(m) == [m EXCEPT !.log = Append(@, Ev("destroy", Null, 0, TRUE))]

\* A Reserve that leaves the storage alone only when it is strictly larger
\* than what is asked for.
ReserveStrict(m, S, new_capacity, thr) ==
    IF new_capacity < S.capacity_ THEN Outcome(m, S, NoRet, FALSE)
    ELSE LET nb == BufferOf(m.heap, new_capacity)
             m1 == Allocate(m, thr, nb, new_capacity)
         IN  IF m1.thrown THEN Outcome(m1, S, NoRet, TRUE)
             ELSE LET m2 == Transfer(m1, thr, S.buffer_, 0, S.size_, nb, 0)
                  IN  IF m2.thrown THEN Outcome(Deallocate(m2, nb), S, NoRet, TRUE)
                      ELSE LET m3 == DestroyN(m2, S.buffer_, 0, S.size_)
                               m4 == Deallocate(SwapStorage(m3, nb), S.buffer_)
                           IN  Outcome(m4, [S EXCEPT !.buffer_ = nb, !.capacity_ = new_capacity],
                                       NoRet, TRUE)

\* void Reserve(size_t new_capacity)
ReserveRun(m, S, new_capacity, thr) ==
    IF new_capacity <= S.capacity_ THEN Outcome(m, S, NoRet, FALSE)
    ELSE LET nb == BufferOf(m.heap, new_capacity)
             m1 == Allocate(m, thr, nb, new_capacity)
         IN  IF m1.thrown THEN Outcome(m1, S, NoRet, TRUE)
             ELSE LET m2 == Transfer(m1, thr, S.buffer_, 0, S.size_, nb, 0)
                  IN  IF m2.thrown THEN Outcome(Deallocate(m2, nb), S, NoRet, TRUE)
                      ELSE LET m3 == DestroyN(m2, S.buffer_, 0, S.size_)
                               m4 == Deallocate(SwapStorage(m3, nb), S.buffer_)
                           IN  Outcome(m4, [S EXCEPT !.buffer_ = nb, !.capacity_ = new_capacity],
                                       NoRet, TRUE)

\* A PushBack that takes the old elements over first and constructs the new
\* one after them.
PushBackTransfersFirst(m, S, value, thr) ==
    IF S.size_ >= S.capacity_
    THEN LET nc == GrowCapacity(S.size_)
             nb == BufferOf(m.heap, nc)
             m1 == Allocate(m, thr, nb, nc)
         IN  IF m1.thrown THEN Outcome(m1, S, NoRet, TRUE)
             ELSE LET m2 == Transfer(m1, thr, S.buffer_, 0, S.size_, nb, 0)
                  IN  IF m2.thrown THEN Outcome(Deallocate(m2, nb), S, NoRet, TRUE)
                      ELSE LET m3 == ConstructAt(m2, thr, nb, S.size_, Deref(m2, value), "emplace",
                                                 ArgLive(m2, value))
                           IN  IF m3.thrown THEN Outcome(Deallocate(m3, nb), S, NoRet, TRUE)
                               ELSE LET m4 == DestroyN(m3, S.buffer_, 0, S.size_)
                                        m5 == Deallocate(SwapStorage(m4, nb), S.buffer_)
                                    IN  Outcome(m5, [S EXCEPT !.buffer_ = nb, !.capacity_ = nc,
                                                              !.size_ = @ + 1],
                                                NoRet, TRUE)
    ELSE LET m1 == ConstructAt(m, thr, S.buffer_, S.size_, Deref(m, value), "emplace",
                               ArgLive(m, value))
         IN  IF m1.thrown THEN Outcome(m1, S, NoRet, FALSE)
             ELSE Outcome(m1, [S EXCEPT !.size_ = @ + 1], NoRet, FALSE)

\* template <typename Forward> void PushBack(Forward&& value)
PushBackRun(m, S, value, thr) ==
    IF S.size_ >= S.capacity_
    THEN LET nc == GrowCapacity(S.size_)
             nb == BufferOf(m.heap, nc)
             m1 == Allocate(m, thr, nb, nc)
         IN  IF m1.thrown THEN Outcome(m1, S, NoRet, TRUE)
             ELSE LET m2 == ConstructAt(m1, thr, nb, S.size_, Deref(m1, value), "emplace", ArgLive(m1, value))
                  IN  IF m2.thrown THEN Outcome(Deallocate(m2, nb), S, NoRet, TRUE)
                      ELSE LET m3 == Transfer(m2, thr, S.buffer_, 0, S.size_, nb, 0)
                           IN  IF m3.thrown THEN Outcome(Deallocate(m3, nb), S, NoRet, TRUE)
                               ELSE LET m4 == DestroyN(m3, S.buffer_, 0, S.size_)
                                        m5 == Deallocate(SwapStorage(m4, nb), S.buffer_)
                                    IN  Outcome(m5, [S EXCEPT !.buffer_ = nb, !.capacity_ = nc,
                                                              !.size_ = @ + 1],
                                                NoRet, TRUE)
    ELSE LET m1 == ConstructAt(m, thr, S.buffer_, S.size_, Deref(m, value), "emplace", ArgLive(m, value))
         IN  IF m1.thrown THEN Outcome(m1, S, NoRet, FALSE)
             ELSE Outcome(m1, [S EXCEPT !.size_ = @ + 1], NoRet, FALSE)

\* template <typename... Args> T& EmplaceBack(Args&&... args)
EmplaceBackRun(m, S, value, thr) ==
    IF S.size_ >= S.capacity_
    THEN LET nc == GrowCapacity(S.size_)
             nb == BufferOf(m.heap, nc)
             m1 == Allocate(m, thr, nb, nc)
         IN  IF m1.thrown THEN Outcome(m1, S, NoRet, TRUE)
             ELSE LET m2 == ConstructAt(m1, thr, nb, S.size_, Deref(m1, value), "emplace", ArgLive(m1, value))
                  IN  IF m2.thrown THEN Outcome(Deallocate(m2, nb), S, NoRet, TRUE)
                      ELSE LET m3 == Transfer(m2, thr, S.buffer_, 0, S.size_, nb, 0)
                           IN  IF m3.thrown THEN Outcome(Deallocate(m3, nb), S, NoRet, TRUE)
                               ELSE LET m4 == DestroyN(m3, S.buffer_, 0, S.size_)
                                        m5 == Deallocate(SwapStorage(m4, nb), S.buffer_)
                                    IN  Outcome(m5, [S EXCEPT !.buffer_ = nb, !.capacity_ = nc,
                                                              !.size_ = @ + 1],
                                                [b |-> nb, i |-> S.size_], TRUE)
    ELSE LET m1 == ConstructAt(m, thr, S.buffer_, S.size_, Deref(m, value), "emplace", ArgLive(m, value))
         IN  IF m1.thrown THEN Outcome(m1, S, NoRet, FALSE)
             ELSE Outcome(m1, [S EXCEPT !.size_ = @ + 1], [b |-> S.buffer_, i |-> S.size_], FALSE)

\* The reallocating path of Emplace (lines 177-202).
EmplaceRealloc(m, S, dst, value, thr) ==
    LET nc == GrowCapacity(S.size_)
        nb == BufferOf(m.heap, nc)
        m1 == Allocate(m, thr, nb, nc)
    IN  IF m1.thrown THEN Outcome(m1, S, NoRet, TRUE)
        ELSE LET m2 == ConstructAt(m1, thr, nb, dst, Deref(m1, value), "emplace", ArgLive(m1, value))
             IN  IF m2.thrown THEN Outcome(Deallocate(m2, nb), S, NoRet, TRUE)
                 ELSE LET m3 == Transfer(m2, thr, S.buffer_, 0, dst, nb, 0)
                      IN  IF m3.thrown
                          THEN Outcome(Deallocate(DestroyAt(m3, nb, dst), nb), S, NoRet, TRUE)
                          ELSE LET m4 == Transfer(m3, thr, S.buffer_, dst, S.size_ - dst, nb, dst + 1)
                               IN  IF m4.thrown
                                   THEN Outcome(Deallocate(DestroyN(m4, nb, 0, dst), nb), S, NoRet, TRUE)
                                   ELSE LET m5 == DestroyN(m4, S.buffer_, 0, S.size_)
                                            m6 == Deallocate(SwapStorage(m5, nb), S.buffer_)
                                        IN  Outcome(m6, [S EXCEPT !.buffer_ = nb, !.capacity_ = nc,
                                                                  !.size_ = @ + 1],
                                                    [b |-> nb, i |-> dst], TRUE)

\* An in-place path that takes no temporary: the argument is read when it
\* is assigned to its slot, after the shift.
EmplaceInPlaceNoTemp(m, S, dst, value, thr) ==
    IF dst # S.size_
    THEN LET b  == S.buffer_
             m2 == MoveConstructAt(m, thr, b, S.size_ - 1, b, S.size_)
         IN  IF m2.thrown THEN Outcome(m2, S, NoRet, FALSE)
             ELSE LET m3 == MoveBackward(m2, thr, b, dst, S.size_ - 1, S.size_)
                  IN  IF m3.thrown THEN Outcome(m3, S, NoRet, FALSE)
                      ELSE LET m4 == AssignAt(m3, thr, b, dst, Deref(m3, value), "copy_assign",
                                              ArgLive(m3, value))
                           IN  IF m4.thrown THEN Outcome(m4, S, NoRet, FALSE)
                               ELSE Outcome(m4, [S EXCEPT !.size_ = @ + 1],
                                            [b |-> b, i |-> dst], FALSE)
    ELSE LET m1 == ConstructAt(m, thr, S.buffer_, S.size_, Deref(m, value), "emplace",
                               ArgLive(m, value))
         IN  IF m1.thrown THEN Outcome(m1, S, NoRet, FALSE)
             ELSE Outcome(m1, [S EXCEPT !.size_ = @ + 1], [b |-> S.buffer_, i |-> dst], FALSE)

\* The path of Emplace that keeps the storage (lines 203-217).
EmplaceInPlace(m, S, dst, value, thr) ==
    IF dst # S.size_
    THEN LET b  == S.buffer_
             copy == Deref(m, value)
             m1 == TempConstruct(m, thr, value)
         IN  IF m1.thrown THEN Outcome(m1, S, NoRet, FALSE)
             ELSE LET m2 == MoveConstructAt(m1, thr, b, S.size_ - 1, b, S.size_)
                  IN  IF m2.thrown THEN Outcome(TempDestroy(m2), S, NoRet, FALSE)
                      ELSE LET m3 == MoveBackward(m2, thr, b, dst, S.size_ - 1, S.size_)
                           IN  IF m3.thrown THEN Outcome(TempDestroy(m3), S, NoRet, FALSE)
                               ELSE LET m4 == AssignAt(m3, thr, b, dst, copy, "move_assign", TRUE)
                                    IN  IF m4.thrown THEN Outcome(TempDestroy(m4), S, NoRet, FALSE)
                                        ELSE Outcome(TempDestroy(m4), [S EXCEPT !.size_ = @ + 1],
                                                     [b |-> b, i |-> dst], FALSE)
    ELSE LET m1 == ConstructAt(m, thr, S.buffer_, S.size_, Deref(m, value), "emplace", ArgLive(m, value))
         IN  IF m1.thrown THEN Outcome(m1, S, NoRet, FALSE)
             ELSE Outcome(m1, [S EXCEPT !.size_ = @ + 1], [b |-> S.buffer_, i |-> dst], FALSE)

\* template <typename... Args> iterator Emplace(const_iterator pos, Args&&... args)
EmplaceRun(m, S, dst, value, thr) ==
    IF S.size_ >= S.capacity_ THEN EmplaceRealloc(m, S, dst, value, thr)
    ELSE EmplaceInPlace(m, S, dst, value, thr)

\* iterator Insert(const_iterator pos, const T& value) / (const_iterator pos, T&& value)
InsertRun(m, S, dst, value, thr) == EmplaceRun(m, S, dst, value, thr)

\* iterator Erase(const_iterator pos)
EraseRun(m, S, dst, thr) ==
    LET b  == S.buffer_
        m1 == DestroyAt(m, b, dst)
        m2 == MoveRange(m1, thr, b, dst + 1, S.size_, dst)
    IN  IF m2.thrown THEN Outcome(m2, S, NoRet, FALSE)
        ELSE Outcome(m2, [S EXCEPT !.size_ = @ - 1], [b |-> b, i |-> dst], FALSE)

\* A Resize whose shrinking branch keeps one element too many alive.
ResizeKeepsOne(m, S, new_size, thr) ==
    IF S.size_ < new_size
    THEN LET r  == IF S.capacity_ < new_size THEN ReserveRun(m, S, new_size, thr)
                   ELSE Outcome(m, S, NoRet, FALSE)
         IN  IF r.m.thrown THEN r
             ELSE LET m2 == UninitializedValueConstructN(r.m, thr, r.vec.buffer_, S.size_,
                                                         new_size - S.size_, 0)
                  IN  IF m2.thrown THEN Outcome(m2, r.vec, NoRet, r.realloc)
                      ELSE Outcome(m2, [r.vec EXCEPT !.size_ = new_size], NoRet, r.realloc)
    ELSE LET m1 == DestroyN(m, S.buffer_, new_size + 1, S.size_ - new_size - 1)
         IN  Outcome(m1, [S EXCEPT !.size_ = new_size], NoRet, FALSE)

\* void Resize(size_t new_size)
ResizeRun(m, S, new_size, thr) ==
    IF S.size_ < new_size
    THEN LET r  == IF S.capacity_ < new_size THEN ReserveRun(m, S, new_size, thr)
                   ELSE Outcome(m, S, NoRet, FALSE)
         IN  IF r.m.thrown THEN r
             ELSE LET m2 == UninitializedValueConstructN(r.m, thr, r.vec.buffer_, S.size_,
                                                         new_size - S.size_, 0)
                  IN  IF m2.thrown THEN Outcome(m2, r.vec, NoRet, r.realloc)
                      ELSE Outcome(m2, [r.vec EXCEPT !.size_ = new_size], NoRet, r.realloc)
    ELSE LET m1 == DestroyN(m, S.buffer_, new_size, S.size_ - new_size)
         IN  Outcome(m1, [S EXCEPT !.size_ = new_size], NoRet, FALSE)

\* A PopBack that gives the slot back with the element.
PopBackShrinks(m, S) ==
    Outcome(DestroyAt(m, S.buffer_, S.size_ - 1),
            [S EXCEPT !.size_ = @ - 1, !.capacity_ = @ - 1], NoRet, FALSE)

\* void PopBack() noexcept
PopBackRun(m, S) ==
    Outcome(DestroyAt(m, S.buffer_, S.size_ - 1), [S EXCEPT !.size_ = @ - 1], NoRet, FALSE)

\* A copy assignment that destroys its own elements first and then copy
\* constructs those of rhs, in new storage when its own is too small.
CopyAssignClearsFirst(m, S, R, thr) ==
    LET m0 == DestroyN(m, S.buffer_, 0, S.size_)
        S0 == [S EXCEPT !.size_ = 0]
    IN  IF S.capacity_ < R.size_
        THEN LET nb == BufferOf(m0.heap, R.size_)
                 m1 == Allocate(m0, thr, nb, R.size_)
             IN  IF m1.thrown THEN Outcome(m1, S0, NoRet, TRUE)
                 ELSE LET m2 == UninitializedCopyN(m1, thr, R.buffer_, 0, R.size_, nb, 0)
                      IN  IF m2.thrown THEN Outcome(Deallocate(m2, nb), S0, NoRet, TRUE)
                          ELSE Outcome(Deallocate(m2, S.buffer_),
                                       [S EXCEPT !.buffer_ = nb, !.capacity_ = R.size_,
                                                 !.size_ = R.size_], NoRet, TRUE)
        ELSE LET m2 == UninitializedCopyN(m0, thr, R.buffer_, 0, R.size_, S.buffer_, 0)
             IN  IF m2.thrown THEN Outcome(m2, S0, NoRet, FALSE)
                 ELSE Outcome(m2, [S EXCEPT !.size_ = R.size_], NoRet, FALSE)

\* Vector& operator=(const Vector& rhs), this != &rhs
CopyAssignRun(m, S, R, thr) ==
    IF S.capacity_ < R.size_
    THEN LET nb == BufferOf(m.heap, R.size_)
             m1 == Allocate(m, thr, nb, R.size_)
         IN  IF m1.thrown THEN Outcome(m1, S, NoRet, TRUE)
             ELSE LET m2 == UninitializedCopyN(m1, thr, R.buffer_, 0, R.size_, nb, 0)
                  IN  IF m2.thrown THEN Outcome(Deallocate(m2, nb), S, NoRet, TRUE)
                      ELSE \* Swap(rhs_copy), then ~Vector() of rhs_copy
                           LET m3 == DestroyN(SwapStorage(m2, nb), S.buffer_, 0, S.size_)
                               m4 == Deallocate(m3, S.buffer_)
                           IN  Outcome(m4, [S EXCEPT !.buffer_ = nb, !.capacity_ = R.size_,
                                                     !.size_ = R.size_], NoRet, TRUE)
    ELSE IF R.size_ < S.size_
    THEN LET m1 == CopyN(m, thr, R.buffer_, 0, R.size_, S.buffer_, 0, 0)
         IN  IF m1.thrown THEN Outcome(m1, S, NoRet, FALSE)
             ELSE Outcome(DestroyN(m1, S.buffer_, R.size_, S.size_ - R.size_),
                          [S EXCEPT !.size_ = R.size_], NoRet, FALSE)
    ELSE LET m1 == CopyN(m, thr, R.buffer_, 0, S.size_, S.buffer_, 0, 0)
         IN  IF m1.thrown THEN Outcome(m1, S, NoRet, FALSE)
             ELSE LET m2 == UninitializedCopyN(m1, thr, R.buffer_, S.size_, R.size_ - S.size_,
                                               S.buffer_, S.size_)
                  IN  IF m2.thrown THEN Outcome(m2, S, NoRet, FALSE)
                      ELSE Outcome(m2, [S EXCEPT !.size_ = R.size_], NoRet, FALSE)

\* Vector() = default, and the state of an object that does not exist
NoVector == [exists |-> FALSE, buffer_ |-> Null, capacity_ |-> 0, size_ |-> 0]
EmptyVector == [exists |-> TRUE, buffer_ |-> Null, capacity_ |-> 0, size_ |-> 0]

\* explicit Vector(size_t size)
ConstructRun(m, size, thr) ==
    LET nb == BufferOf(m.heap, size)
        m1 == Allocate(m, thr, nb, size)
    IN  IF m1.thrown THEN Outcome(m1, NoVector, NoRet, FALSE)
        ELSE LET m2 == UninitializedValueConstructN(m1, thr, nb, 0, size, 0)
             IN  IF m2.thrown THEN Outcome(Deallocate(m2, nb), NoVector, NoRet, FALSE)
                 ELSE Outcome(m2, [exists |-> TRUE, buffer_ |-> nb, capacity_ |-> size,
                                   size_ |-> size], NoRet, FALSE)

\* Vector(const Vector& other)
CopyConstructRun(m, R, thr) ==
    LET nb == BufferOf(m.heap, R.size_)
        m1 == Allocate(m, thr, nb, R.size_)
    IN  IF m1.thrown THEN Outcome(m1, NoVector, NoRet, FALSE)
        ELSE LET m2 == UninitializedCopyN(m1, thr, R.buffer_, 0, R.size_, nb, 0)
             IN  IF m2.thrown THEN Outcome(Deallocate(m2, nb), NoVector, NoRet, FALSE)
                 ELSE Outcome(m2, [exists |-> TRUE, buffer_ |-> nb, capacity_ |-> R.size_,
                                   size_ |-> R.size_], NoRet, FALSE)

\* ~Vector(), then ~RawMemory()
DestroyRun(m, S) ==
    Outcome(Deallocate(DestroyN(m, S.buffer_, 0, S.size_), S.buffer_), NoVector, NoRet, FALSE)

\* T* buffer_ = nullptr; size_t capacity_ = 0; and an object that does not exist
NoMemory == [exists |-> FALSE, buffer_ |-> Null, capacity_ |-> 0]
EmptyMemory == [exists |-> TRUE, buffer_ |-> Null, capacity_ |-> 0]

\* ------------------------------------------------------------------- actions
\* The exception a call meets: -1 the allocation fails, 0 none, t > 0 the
\* t-th element operation that may throw does.
ThrowPoints(cap) == -1..(cap + 1)

\* The class invariant of section 3: a buffer of capacity_ slots, the first
\* size_ of them live, the others raw.
WellFormed(h, S) ==
    /\ S.size_ <= S.capacity_
    /\ (S.capacity_ = 0) = (S.buffer_ = Null)
    /\ S.buffer_ # Null =>
          /\ h[S.buffer_].alloc
          /\ Len(h[S.buffer_].slots) = S.capacity_
          /\ \A i \in 0..(S.capacity_ - 1) : IsLive(h, S.buffer_, i) = (i < S.size_)

\* A call is made on an object that exists and whose invariant holds: what
\* the code does with a broken object is undefined from the first step.
Usable(v) == vec[v].exists /\ WellFormed(heap, vec[v])

\* Calls follow one another: the record of the last one has been dropped.
Ready == last.op = "none"

\* What a caller can see of a vector, and the slots of its block.
Snap(h, S) == [vec |-> S, slots |-> IF S.buffer_ = Null THEN <<>> ELSE h[S.buffer_].slots]

OtherOf(v) == CHOOSE w \in Vecs : w # v

\* The record of a call: its name, the object v it was made on, its operand
\* w, its position or size argument k and its value argument, whether it took
\* the reallocating path, whether it threw, the iterator it returned, the
\* index of the element of v its value argument refers to (-1: none), and
\* the two vectors as they were when it started.
CallFrom(op, v, w, k, value, r, origin) ==
    [op |-> op, v |-> v, w |-> w, k |-> k, value |-> value, realloc |-> r.realloc,
     thrown |-> r.m.thrown, ret |-> r.ret, alias |-> -1,
     before |-> Snap(heap, vec[v]),
     other |-> Snap(heap, vec[IF w # v THEN w ELSE OtherOf(v)]),
     origin |-> origin]

Call(op, v, w, k, value, r) == CallFrom(op, v, w, k, value, r, Snap(heap, vec[v]))

Idle ==
    [op |-> "none", v |-> "A", w |-> "A", k |-> 0, value |-> "", realloc |-> FALSE,
     thrown |-> FALSE, ret |-> NoRet, alias |-> -1,
     before |-> Snap(heap, NoVector), other |-> Snap(heap, NoVector),
     origin |-> Snap(heap, NoVector)]

CommitFrom(op, v, w, k, value, r, origin) ==
    /\ heap' = r.m.heap
    /\ log' = r.m.log
    /\ vec' = [vec EXCEPT ![v] = r.vec]
    /\ last' = CallFrom(op, v, w, k, value, r, origin)
    /\ UNCHANGED <<T, mem>>

Commit(op, v, w, k, value, r) == CommitFrom(op, v, w, k, value, r, Snap(heap, vec[v]))

\* A call whose value argument may be a reference to an element of v: the
\* record keeps the value the argument had when the call started.
CommitArg(op, v, k, value, r) ==
    /\ heap' = r.m.heap
    /\ log' = r.m.log
    /\ vec' = [vec EXCEPT ![v] = r.vec]
    /\ last' = [Call(op, v, v, k, Deref(Machine(heap, TRUE), value), r)
                   EXCEPT !.alias = IF value.b = Null THEN -1 ELSE value.i]
    /\ UNCHANGED <<T, mem>>

\* What PushBack(const T&) and Insert(pos, const T&) can be given: any value
\* from outside, or (T can be copied) any element of v itself.
Args(v) ==
    {Outside(x) : x \in Values}
      \cup (IF T.copyable THEN {ElemRef(vec[v].buffer_, i) : i \in 0..(vec[v].size_ - 1)}
            ELSE {})

\* The call may grow the storage only up to cap slots.
CanAppend(v, cap) == vec[v].size_ < vec[v].capacity_ \/ GrowCapacity(vec[v].size_) <= cap

Init ==
    /\ T \in ElemTypes
    /\ heap = [b \in BlockIds |-> NoBlock]
    /\ vec = [v \in Vecs |-> IF v = "A" THEN EmptyVector ELSE NoVector]
    /\ last = Idle
    /\ log = <<>>
    /\ appended = [v \in Vecs |-> v = "A"]
    /\ mem = [r \in Mems |-> NoMemory]

\* The caller has seen the outcome of the call; the next call starts.
Return ==
    /\ ~Ready
    /\ last' = Idle
    /\ log' = <<>>
    /\ UNCHANGED <<T, heap, vec, appended, mem>>

DefaultConstruct(v) ==
    /\ Ready /\ ~vec[v].exists
    /\ Commit("Vector", v, v, 0, "", Outcome(Machine(heap, TRUE), EmptyVector, NoRet, FALSE))
    /\ appended' = [appended EXCEPT ![v] = TRUE]

Construct(v, cap) ==
    /\ Ready /\ ~vec[v].exists
    /\ \E size \in 0..cap, thr \in ThrowPoints(cap) :
          Commit("Vector(size)", v, v, size, "", ConstructRun(Machine(heap, TRUE), size, thr))
    /\ appended' = [appended EXCEPT ![v] = FALSE]

CopyConstruct(v, w, cap) ==
    /\ Ready /\ v # w /\ ~vec[v].exists /\ Usable(w) /\ T.copyable
    /\ \E thr \in ThrowPoints(cap) :
          Commit("Vector(const&)", v, w, 0, "", CopyConstructRun(Machine(heap, TRUE), vec[w], thr))
    /\ appended' = [appended EXCEPT ![v] = FALSE]

\* Vector(Vector&& other) noexcept, with RawMemory(RawMemory&& other) noexcept:
\* buffer_, capacity_ and size_ are taken and the source's are set to
\* nullptr, 0 and 0.
MoveConstructFields(v, w) ==
    [vec EXCEPT ![v] = vec[w], ![w] = EmptyVector]

MoveConstruct(v, w) ==
    /\ Ready /\ v # w /\ ~vec[v].exists /\ Usable(w)
    /\ vec' = MoveConstructFields(v, w)
    /\ heap' = heap
    /\ log' = <<>>
    /\ last' = Call("Vector(&&)", v, w, 0, "", Outcome(Machine(heap, TRUE), vec[w], NoRet, FALSE))
    /\ appended' = [appended EXCEPT ![v] = FALSE, ![w] = FALSE]
    /\ UNCHANGED <<T, mem>>

Destroy(v) ==
    /\ Ready /\ vec[v].exists
    /\ Commit("~Vector", v, v, 0, "", DestroyRun(Machine(heap, TRUE), vec[v]))
    /\ appended' = [appended EXCEPT ![v] = FALSE]

PushBack(v, cap) ==
    /\ Ready /\ Usable(v) /\ CanAppend(v, cap)
    /\ \E value \in Args(v), thr \in ThrowPoints(cap) :
          CommitArg("PushBack", v, vec[v].size_, value,
                    PushBackRun(Machine(heap, TRUE), vec[v], value, thr))
    /\ UNCHANGED appended

EmplaceBack(v, cap) ==
    /\ Ready /\ Usable(v) /\ CanAppend(v, cap)
    /\ \E value \in Values, thr \in ThrowPoints(cap) :
          Commit("EmplaceBack", v, v, vec[v].size_, value,
                 EmplaceBackRun(Machine(heap, TRUE), vec[v], Outside(value), thr))
    /\ UNCHANGED appended

Emplace(v, cap) ==
    /\ Ready /\ Usable(v) /\ CanAppend(v, cap)
    /\ \E dst \in 0..vec[v].size_, value \in Values, thr \in ThrowPoints(cap) :
          Commit("Emplace", v, v, dst, value,
                 EmplaceRun(Machine(heap, TRUE), vec[v], dst, Outside(value), thr))
    /\ appended' = [appended EXCEPT ![v] = FALSE]

Insert(v, cap) ==
    /\ Ready /\ Usable(v) /\ CanAppend(v, cap)
    /\ \E dst \in 0..vec[v].size_, value \in Args(v), thr \in ThrowPoints(cap) :
          CommitArg("Insert", v, dst, value,
                    InsertRun(Machine(heap, TRUE), vec[v], dst, value, thr))
    /\ appended' = [appended EXCEPT ![v] = FALSE]

\* Erase assigns to the slot it has just destroyed when pos is not the last
\* element: both outcomes of that assignment are taken.
Erase(v, cap) ==
    /\ Ready /\ Usable(v)
    /\ \E dst \in 0..(vec[v].size_ - 1), thr \in ThrowPoints(cap), asif \in BOOLEAN :
          Commit("Erase", v, v, dst, "", EraseRun(Machine(heap, asif), vec[v], dst, thr))
    /\ appended' = [appended EXCEPT ![v] = FALSE]

\* v.Erase(v.Insert(pos, value)): Erase called with the iterator the Insert or
\* Emplace that has just returned gave back. The record keeps the vector as
\* it was before that insertion.
EraseInserted(v, cap) ==
    /\ last.op \in {"Insert", "Emplace"} /\ last.v = v /\ ~last.thrown
    /\ last.ret.b = vec[v].buffer_
    /\ Usable(v)
    /\ \E thr \in ThrowPoints(cap), asif \in BOOLEAN :
          CommitFrom("Erase", v, v, last.ret.i, "",
                     EraseRun(Machine(heap, asif), vec[v], last.ret.i, thr), last.before)
    /\ appended' = [appended EXCEPT ![v] = FALSE]

PopBack(v) ==
    /\ Ready /\ Usable(v) /\ vec[v].size_ > 0
    /\ Commit("PopBack", v, v, 0, "", PopBackRun(Machine(heap, TRUE), vec[v]))
    /\ appended' = [appended EXCEPT ![v] = FALSE]

Resize(v, cap) ==
    /\ Ready /\ Usable(v)
    /\ \E new_size \in 0..cap, thr \in ThrowPoints(cap) :
          Commit("Resize", v, v, new_size, "", ResizeRun(Machine(heap, TRUE), vec[v], new_size, thr))
    /\ appended' = [appended EXCEPT ![v] = FALSE]

Reserve(v, cap) ==
    /\ Ready /\ Usable(v)
    /\ \E new_capacity \in 0..cap, thr \in ThrowPoints(cap) :
          Commit("Reserve", v, v, new_capacity, "",
                 ReserveRun(Machine(heap, TRUE), vec[v], new_capacity, thr))
    /\ appended' = [appended EXCEPT ![v] = FALSE]

\* Vector& operator=(const Vector& rhs)
CopyAssign(v, w, cap) ==
    /\ Ready /\ Usable(v) /\ Usable(w) /\ T.copyable
    /\ \E thr \in ThrowPoints(cap) :
          Commit("operator=(const&)", v, w, 0, "",
                 IF v = w THEN Outcome(Machine(heap, TRUE), vec[v], NoRet, FALSE)
                 ELSE CopyAssignRun(Machine(heap, TRUE), vec[v], vec[w], thr))
    /\ appended' = [appended EXCEPT ![v] = FALSE]

\* void Swap(Vector& other) noexcept, with RawMemory::Swap: the two objects
\* exchange buffer_, capacity_ and size_ unless they are the same object.
SwapFields(v, w) ==
    IF v = w THEN vec
    ELSE [vec EXCEPT ![v] = vec[w], ![w] = vec[v]]

Swap(v, w) ==
    /\ Ready /\ Usable(v) /\ Usable(w)
    /\ vec' = SwapFields(v, w)
    /\ heap' = heap
    /\ log' = <<>>
    /\ last' = Call("Swap", v, w, 0, "", Outcome(Machine(heap, TRUE), vec[v], NoRet, FALSE))
    /\ appended' = [appended EXCEPT ![v] = FALSE, ![w] = FALSE]
    /\ UNCHANGED <<T, mem>>

\* A move assignment that takes the fields of rhs and leaves rhs as it was.
MoveAssignKeepsSource(v, w) ==
    [vec EXCEPT ![v] = vec[w]]

\* A move assignment that takes the fields of rhs and leaves rhs empty,
\* without asking whether rhs is this object.
MoveAssignSteals(v, w) ==
    [vec EXCEPT ![v] = vec[w], ![w] = EmptyVector]

\* Vector& operator=(Vector&& rhs) noexcept: Swap(rhs) unless this == &rhs.
MoveAssignFields(v, w) ==
    IF v = w THEN vec ELSE SwapFields(v, w)

MoveAssign(v, w) ==
    /\ Ready /\ Usable(v) /\ Usable(w)
    /\ vec' = MoveAssignFields(v, w)
    /\ heap' = heap
    /\ log' = <<>>
    /\ last' = Call("operator=(&&)", v, w, 0, "", Outcome(Machine(heap, TRUE), vec[v], NoRet, FALSE))
    /\ appended' = [appended EXCEPT ![v] = FALSE, ![w] = FALSE]
    /\ UNCHANGED <<T, mem>>

\* One vector, every operation on it.
Next ==
    \/ Return
    \/ DefaultConstruct("A")
    \/ Construct("A", MaxCap)
    \/ Destroy("A")
    \/ PushBack("A", MaxCap)
    \/ EmplaceBack("A", MaxCap)
    \/ Emplace("A", MaxCap)
    \/ Insert("A", MaxCap)
    \/ Erase("A", MaxCap)
    \/ EraseInserted("A", MaxCap)
    \/ PopBack("A")
    \/ Resize("A", MaxCap)
    \/ Reserve("A", MaxCap)
    \/ CopyAssign("A", "A", MaxCap)
    \/ MoveAssign("A", "A")
    \/ Swap("A", "A")

Spec == Init /\ [][Next]_vars

\* Two vectors: the operations between them, and enough of the others to
\* give each any contents and to change it afterwards.
NextPair ==
    \/ Return
    \/ \E v \in Vecs :
        \/ DefaultConstruct(v)
        \/ Construct(v, PairCap)
        \/ Destroy(v)
        \/ PushBack(v, PairCap)
        \/ Insert(v, PairCap)
        \/ PopBack(v)
        \/ Reserve(v, PairCap)
        \/ \E w \in Vecs :
              \/ CopyConstruct(v, w, PairCap)
              \/ MoveConstruct(v, w)
              \/ CopyAssign(v, w, PairCap)
              \/ MoveAssign(v, w)
              \/ Swap(v, w)

SpecPair == Init /\ [][NextPair]_vars

\* Every call that may allocate, on one vector: A grows by all of them and
\* is copy assigned from B, which is only created and destroyed.
NextAssign ==
    \/ Return
    \/ DefaultConstruct("A")
    \/ Destroy("A")
    \/ Construct("B", PairCap)
    \/ Destroy("B")
    \/ PushBack("A", PairCap)
    \/ EmplaceBack("A", PairCap)
    \/ Insert("A", PairCap)
    \/ Emplace("A", PairCap)
    \/ PopBack("A")
    \/ Resize("A", PairCap)
    \/ Reserve("A", PairCap)
    \/ CopyAssign("A", "B", PairCap)

SpecAssign == Init /\ [][NextAssign]_vars

\* ------------------------------------------------- RawMemory on its own
\* RawMemory() = default
RawDefaultConstruct(r) ==
    /\ ~mem[r].exists
    /\ mem' = [mem EXCEPT ![r] = EmptyMemory]
    /\ UNCHANGED <<T, heap, vec, last, log, appended>>

\* explicit RawMemory(size_t capacity): when operator new throws there is no
\* object.
RawConstruct(r, cap) ==
    /\ ~mem[r].exists
    /\ \E capacity \in 0..cap, thr \in {-1, 0} :
          /\ capacity > 0 => \E b \in BlockIds : ~heap[b].alloc
          /\ LET nb == BufferOf(heap, capacity)
                 m1 == Allocate(Machine(heap, TRUE), thr, nb, capacity)
             IN  /\ heap' = m1.heap
                 /\ mem' = IF m1.thrown THEN mem
                           ELSE [mem EXCEPT ![r] = [exists |-> TRUE, buffer_ |-> nb,
                                                    capacity_ |-> capacity]]
    /\ UNCHANGED <<T, vec, last, log, appended>>

\* RawMemory(RawMemory&& other) noexcept: std::exchange of both fields.
RawMoveConstruct(r, s) ==
    /\ r # s /\ ~mem[r].exists /\ mem[s].exists
    /\ mem' = [mem EXCEPT ![r] = mem[s], ![s] = EmptyMemory]
    /\ UNCHANGED <<T, heap, vec, last, log, appended>>

\* ~RawMemory(): Deallocate(buffer_)
RawDestroy(r) ==
    /\ mem[r].exists
    /\ heap' = Deallocate(Machine(heap, TRUE), mem[r].buffer_).heap
    /\ mem' = [mem EXCEPT ![r] = NoMemory]
    /\ UNCHANGED <<T, vec, last, log, appended>>

\* RawMemory& operator=(RawMemory&& rhs) noexcept: unless this == &rhs, both
\* fields are overwritten with those of rhs, and rhs is left with nullptr, 0.
RawMoveAssign(r, s) ==
    /\ mem[r].exists /\ mem[s].exists
    /\ mem' = IF r = s THEN mem
              ELSE [mem EXCEPT ![r] = mem[s], ![s] = EmptyMemory]
    /\ UNCHANGED <<T, heap, vec, last, log, appended>>

\* void Swap(RawMemory& other) noexcept
RawSwap(r, s) ==
    /\ mem[r].exists /\ mem[s].exists
    /\ mem' = [mem EXCEPT ![r] = mem[s], ![s] = mem[r]]
    /\ UNCHANGED <<T, heap, vec, last, log, appended>>

NextRaw ==
    \E r \in Mems :
        \/ RawDefaultConstruct(r)
        \/ RawConstruct(r, PairCap)
        \/ RawDestroy(r)
        \/ \E s \in Mems :
              \/ RawMoveConstruct(r, s)
              \/ RawMoveAssign(r, s)
              \/ RawSwap(r, s)

SpecRaw == Init /\ [][NextRaw]_vars

\* ---------------------------------------------------------------- observers
\* const T& operator[](size_t index), for index in [0, Size())
Elems(h, S) == [i \in 1..S.size_ |-> h[S.buffer_].slots[i].val]

SnapElems(sn) == [i \in 1..sn.vec.size_ |-> sn.slots[i].val]

\* The vector the last call was made on, and the other one, as they are now.
Cur == vec[last.v]
CurOther == vec[IF last.w # last.v THEN last.w ELSE OtherOf(last.v)]

\* The steps of the last call of the given kinds on block b.
Steps(kinds, b) == {j \in 1..Len(log) : log[j].t \in kinds /\ log[j].b = b}

Constructions == {"emplace", "copy", "move", "value"}
Assignments == {"copy_assign", "move_assign"}

\* The block the last call allocated (Null when it allocated none).
NewBlock ==
    IF \E j \in 1..Len(log) : log[j].t = "alloc"
    THEN log[CHOOSE j \in 1..Len(log) : log[j].t = "alloc"].b
    ELSE Null

\* The sequence s with v put before its element number k (counted from 0),
\* and s without its element number k.
InsertedAt(s, k, v) == SubSeq(s, 1, k) \o <<v>> \o SubSeq(s, k + 1, Len(s))
RemovedAt(s, k) == SubSeq(s, 1, k) \o SubSeq(s, k + 2, Len(s))

Appends == {"PushBack", "EmplaceBack"}
Inserts == {"Insert", "Emplace"}

\* ------------------------------------------------------------------- claims

\* C1 (as claimed): after a call that does not throw, every vector has
\* size <= capacity, a live element in each slot of [0, size) and none in
\* the slots of [size, capacity).
C1_InvariantKept ==
    (last.op # "none" /\ ~last.thrown) =>
        \A v \in Vecs : vec[v].exists => WellFormed(heap, vec[v])

\* C2 (as claimed): after move construction of v from w, or move assignment
\* of w to v (two different vectors), v holds what w held and w is empty.
C2_SourceLeftEmpty ==
    (last.op \in {"Vector(&&)", "operator=(&&)"} /\ last.v # last.w) =>
        /\ Elems(heap, Cur) = SnapElems(last.other)
        /\ CurOther.exists /\ CurOther.size_ = 0

\* C2 (amended): v holds what w held. After move construction w is empty
\* with no storage; after move assignment w holds what v held before (the
\* operation is an exchange), so w is empty only when v was.
C2_MoveExchanges ==
    (last.op \in {"Vector(&&)", "operator=(&&)"} /\ last.v # last.w) =>
        /\ Snap(heap, Cur) = last.other
        /\ CurOther.exists /\ WellFormed(heap, CurOther)
        /\ last.op = "Vector(&&)" => CurOther = EmptyVector
        /\ last.op = "operator=(&&)" => Snap(heap, CurOther) = last.before

C2_Witness ==
    /\ last.op = "operator=(&&)" /\ last.v # last.w
    /\ last.before.vec.size_ = 1 /\ last.other.vec.size_ = 2
    /\ SnapElems(last.before) # SubSeq(SnapElems(last.other), 1, 1)

\* C3 (as claimed): when an element operation throws on the reallocating
\* path of PushBack, EmplaceBack, Insert, Emplace or Reserve, every element
\* constructed in the new block has been destroyed exactly once, no element
\* of the old block has been destroyed, and the new block has been released
\* with no element left alive in it.
C3_NothingLeaked ==
    (/\ last.op \in Appends \cup Inserts \cup {"Reserve"}
     /\ last.realloc /\ last.thrown /\ NewBlock # Null) =>
        /\ \A i \in 0..MaxCap :
              Cardinality({j \in Steps(Constructions, NewBlock) : log[j].i = i})
                = Cardinality({j \in Steps({"destroy"}, NewBlock) : log[j].i = i})
        /\ Steps({"destroy"}, last.before.vec.buffer_) = {}
        /\ \E j \in Steps({"dealloc"}, NewBlock) : log[j].i = 0
        /\ ~heap[NewBlock].alloc

\* C4: when the elements are transferred by copy and a call on the
\* reallocating path of PushBack, EmplaceBack, Insert, Emplace or Reserve
\* throws, the vector's size, capacity, buffer and every slot of its block
\* are what they were before the call.
C4_StrongGuarantee ==
    (/\ last.op \in Appends \cup Inserts \cup {"Reserve"}
     /\ last.realloc /\ last.thrown /\ ~UseMove) =>
        Snap(heap, Cur) = last.before

\* A copy of the suffix throws in a reallocating Insert, after the new
\* element was constructed and the prefix was copied.
C4_Witness ==
    /\ last.op = "Insert" /\ last.realloc /\ last.thrown /\ ~UseMove
    /\ last.k >= 1 /\ last.before.vec.size_ >= last.k + 1
    /\ \E j \in Steps({"throw"}, NewBlock) : log[j].i = last.k + 1
    /\ Cardinality(Steps({"copy"}, NewBlock)) = last.k

\* The powers of two a capacity can be.
PowersOfTwo == {2 ^ e : e \in 0..(MaxCap + 1)}

\* C5: PushBack, EmplaceBack, Insert and Emplace reallocate exactly when
\* size = capacity, and the capacity then becomes max(1, 2 * size); a vector
\* created empty (capacity 0) and only appended to since has, after each
\* append, one more element and the least power of two >= size as capacity.
C5_Doubling ==
    /\ last.op \in Appends \cup Inserts =>
          /\ last.realloc = (last.before.vec.size_ = last.before.vec.capacity_)
          /\ ~last.thrown =>
                /\ Cur.size_ = last.before.vec.size_ + 1
                /\ Cur.capacity_ =
                      IF last.realloc
                      THEN (IF last.before.vec.size_ = 0 THEN 1 ELSE 2 * last.before.vec.size_)
                      ELSE last.before.vec.capacity_
    /\ \A v \in Vecs :
          (appended[v] /\ vec[v].exists) =>
              \/ vec[v].size_ = 0 /\ vec[v].capacity_ = 0
              \/ /\ vec[v].capacity_ \in PowersOfTwo
                 /\ vec[v].size_ <= vec[v].capacity_
                 /\ vec[v].capacity_ < 2 * vec[v].size_

\* The third append to a vector created empty: capacity 2 becomes 4.
C5_Witness ==
    /\ appended["A"] /\ last.op = "PushBack" /\ last.realloc /\ ~last.thrown
    /\ vec["A"].size_ = 3 /\ vec["A"].capacity_ = 4

\* C6: Insert or Emplace of value at position k of a vector holding
\* e0..e(n-1) leaves e0..e(k-1), value, ek..e(n-1) and size n + 1, on both
\* paths, and returns the address of slot k of the block the vector then has.
C6_InsertPlaces ==
    (last.op \in Inserts /\ ~last.thrown) =>
        /\ Cur.size_ = last.before.vec.size_ + 1
        /\ WellFormed(heap, Cur)
        /\ Elems(heap, Cur) = InsertedAt(SnapElems(last.before), last.k, last.value)
        /\ last.ret = [b |-> Cur.buffer_, i |-> last.k]

\* An insertion that keeps the storage and shifts at least two elements.
C6_Witness ==
    /\ last.op = "Insert" /\ ~last.thrown /\ ~last.realloc
    /\ last.k + 2 <= last.before.vec.size_
    /\ \E i \in 1..last.before.vec.size_ : last.before.slots[i].val # last.value

\* C7 (as claimed): Erase at position k of a vector holding e0..e(n-1) leaves
\* e0..e(k-1), e(k+1)..e(n-1) and size n - 1, destroys one element, the one
\* at k, and returns the address of slot k.
C7_EraseRemoves ==
    (last.op = "Erase" /\ ~last.thrown) =>
        /\ Cur.size_ = last.before.vec.size_ - 1
        /\ Elems(heap, Cur) = RemovedAt(SnapElems(last.before), last.k)
        /\ Cardinality(Steps({"destroy"}, Cur.buffer_)) = 1
        /\ \A j \in Steps({"destroy"}, Cur.buffer_) : log[j].i = last.k
        /\ last.ret = [b |-> Cur.buffer_, i |-> last.k]

\* C8 (as claimed): Insert at offset k followed by Erase at offset k gives
\* back the size and the elements the vector had before the Insert.
C8_InsertThenErase ==
    (last.op = "Erase" /\ ~last.thrown /\ last.origin # last.before) =>
        /\ Cur.size_ = last.origin.vec.size_
        /\ Elems(heap, Cur) = SnapElems(last.origin)

\* C9: after copy assignment of w to v (two different vectors), v has w's
\* size and elements, w and its block are as before, and the two do not
\* share a block; a later call on one vector alone leaves the other vector
\* and its block as they were.
C9_CopyAssign ==
    /\ (last.op = "operator=(const&)" /\ last.v # last.w /\ ~last.thrown) =>
          /\ Cur.size_ = last.other.vec.size_
          /\ WellFormed(heap, Cur)
          /\ Elems(heap, Cur) = SnapElems(last.other)
          /\ Snap(heap, CurOther) = last.other
          /\ Cur.buffer_ # Null => Cur.buffer_ # CurOther.buffer_
    /\ last.op \in Appends \cup Inserts \cup {"PopBack", "Reserve", "~Vector"} =>
          Snap(heap, CurOther) = last.other

\* The source is longer than the target's capacity, and the target is not
\* empty.
C9_Witness ==
    /\ last.op = "operator=(const&)" /\ last.v # last.w /\ ~last.thrown
    /\ last.other.vec.size_ > last.before.vec.capacity_
    /\ last.before.vec.size_ > 0

\* C10: Resize(m) of a vector of size n makes the size m and keeps the first
\* min(n, m) elements; for m < n it destroys the n - m elements of slots
\* [m, n), each once, and constructs nothing; for m > n it value-constructs
\* m - n elements, one in each slot of [n, m).
C10_Resize ==
    (last.op = "Resize" /\ ~last.thrown) =>
        LET n == last.before.vec.size_
            m == last.k
            least == IF n < m THEN n ELSE m
        IN  /\ Cur.size_ = m
            /\ WellFormed(heap, Cur)
            /\ SubSeq(Elems(heap, Cur), 1, least) = SubSeq(SnapElems(last.before), 1, least)
            /\ m < n =>
                  /\ \A b \in BlockIds : Steps(Constructions, b) = {}
                  /\ Cardinality(Steps({"destroy"}, Cur.buffer_)) = n - m
                  /\ \A i \in m..(n - 1) : \E j \in Steps({"destroy"}, Cur.buffer_) : log[j].i = i
            /\ m > n =>
                  /\ Cardinality(Steps({"value"}, Cur.buffer_)) = m - n
                  /\ \A b \in BlockIds \ {Cur.buffer_} : Steps({"value"}, b) = {}
                  /\ \A i \in n..(m - 1) :
                        /\ \E j \in Steps({"value"}, Cur.buffer_) : log[j].i = i
                        /\ SlotAt(heap, Cur.buffer_, i).val = Default

\* A Resize that has to reallocate a vector that is not empty and adds two
\* elements.
C10_Witness ==
    /\ last.op = "Resize" /\ ~last.thrown /\ last.realloc
    /\ last.before.vec.size_ >= 1 /\ last.k >= last.before.vec.size_ + 2

\* C11: Reserve(c) leaves the size as it was whatever happens, and the
\* elements as they were when it returns (and also when it throws while
\* copying); with c <= capacity it performs no element step and no
\* allocation and leaves capacity, buffer and slots untouched; with
\* c > capacity, when it returns, the capacity is c.
C11_Reserve ==
    last.op = "Reserve" =>
        /\ Cur.size_ = last.before.vec.size_
        /\ (~last.thrown \/ ~UseMove) => Elems(heap, Cur) = SnapElems(last.before)
        /\ last.k <= last.before.vec.capacity_ =>
              /\ log = <<>> /\ ~last.thrown /\ ~last.realloc
              /\ Snap(heap, Cur) = last.before
        /\ (last.k > last.before.vec.capacity_ /\ ~last.thrown) =>
              /\ Cur.capacity_ = last.k
              /\ WellFormed(heap, Cur)

\* A Reserve that has to take two elements, not both alike, to a larger block.
C11_Witness ==
    /\ last.op = "Reserve" /\ ~last.thrown
    /\ last.k > last.before.vec.capacity_
    /\ last.before.vec.size_ >= 2
    /\ last.before.slots[1].val # last.before.slots[2].val

Growths == Appends \cup Inserts \cup {"Reserve", "Resize"}

\* C12 (as claimed): for a T that can be copied and whose move may throw,
\* PushBack, EmplaceBack, Reserve, Resize, Insert and Emplace never move
\* construct an existing element; for the other types, the elements
\* taken to new storage are move constructed there.
C12_NeverMoved ==
    last.op \in Growths =>
        /\ ~UseMove => \A b \in BlockIds : Steps({"move"}, b) = {}
        /\ (UseMove /\ last.realloc /\ ~last.thrown) =>
              Cardinality(Steps({"move"}, NewBlock)) = last.before.vec.size_

\* C12 (amended): when one of these calls takes the elements to new
\* storage, a T that can be copied and whose move may throw has them copy
\* constructed there, one copy each and no move construction or move
\* assignment at all, and any other T has them move constructed there, one
\* move each and no copy; a call that keeps the storage copies nothing, and
\* an Insert or Emplace that keeps the storage and is not at the end move
\* constructs the last element one slot up and move assigns the others,
\* whatever T is.
C12_TransferRule ==
    last.op \in Growths =>
        /\ (last.realloc /\ ~UseMove) =>
              /\ \A b \in BlockIds : Steps({"move", "move_assign"}, b) = {}
              /\ ~last.thrown =>
                    /\ Cardinality(Steps({"copy"}, NewBlock)) = last.before.vec.size_
                    /\ \A j \in Steps({"copy"}, NewBlock) : log[j].ok
        /\ (last.realloc /\ UseMove) =>
              /\ \A b \in BlockIds : Steps({"copy", "copy_assign"}, b) = {}
              /\ ~last.thrown =>
                    /\ Cardinality(Steps({"move"}, NewBlock)) = last.before.vec.size_
                    /\ \A j \in Steps({"move"}, NewBlock) : log[j].ok
        /\ ~last.realloc =>
              /\ \A b \in BlockIds : Steps({"copy", "copy_assign"}, b) = {}
              /\ (last.op \in Inserts /\ last.k < last.before.vec.size_ /\ ~last.thrown) =>
                    /\ \E j \in Steps({"move"}, Cur.buffer_) : log[j].i = last.before.vec.size_
                    /\ Cardinality(Steps({"move"}, Cur.buffer_)) = 1
                    /\ Cardinality(Steps({"move_assign"}, Cur.buffer_))
                          = last.before.vec.size_ - last.k
              /\ ~(last.op \in Inserts /\ last.k < last.before.vec.size_) =>
                    \A b \in BlockIds : Steps({"move", "move_assign"}, b) = {}

\* An Insert in the middle of two elements that has to reallocate, for a T
\* that is copied.
C12_Witness ==
    /\ last.op = "Insert" /\ last.realloc /\ ~last.thrown /\ ~UseMove
    /\ last.before.vec.size_ = 2 /\ last.k = 1
    /\ Cardinality(Steps({"copy"}, NewBlock)) = 2

\* The RawMemory objects that hold block b.
Owners(b) == {r \in Mems : mem[r].exists /\ mem[r].buffer_ = b}

\* C13 (as claimed): every block that is allocated and not yet released is
\* held by exactly one RawMemory object, and every block an object holds is
\* allocated, with capacity_ slots (so each block is released once, by the
\* one object that holds it).
C13_ExclusiveOwner ==
    /\ \A b \in BlockIds : heap[b].alloc => Cardinality(Owners(b)) = 1
    /\ \A r \in Mems :
          (mem[r].exists /\ mem[r].buffer_ # Null) =>
              /\ heap[mem[r].buffer_].alloc
              /\ Len(heap[mem[r].buffer_].slots) = mem[r].capacity_

\* The last call was one that only takes elements away, and the number of
\* leading elements it has to leave alone.
Shrinking ==
    \/ last.op \in {"PopBack", "Erase"}
    \/ last.op = "Resize" /\ last.k <= last.before.vec.size_

Kept ==
    IF last.op = "PopBack" THEN last.before.vec.size_ - 1 ELSE last.k

\* C14: PopBack, Erase and a Resize to a size not larger than the current
\* one leave the capacity and the buffer as they were, allocate and release
\* nothing, construct no element anywhere and touch no other block; the
\* block keeps its capacity_ slots, and the elements in front of the removed
\* ones are the same live elements in the same slots.
C14_ShrinkKeepsStorage ==
    Shrinking =>
        /\ Cur.capacity_ = last.before.vec.capacity_
        /\ Cur.buffer_ = last.before.vec.buffer_
        /\ \A j \in 1..Len(log) :
              /\ log[j].t \notin {"alloc", "bad_alloc", "dealloc"} \cup Constructions
              /\ log[j].b = Cur.buffer_
        /\ Cur.buffer_ # Null =>
              /\ heap[Cur.buffer_].alloc
              /\ Len(heap[Cur.buffer_].slots) = Cur.capacity_
              /\ \A i \in 0..(Kept - 1) :
                    SlotAt(heap, Cur.buffer_, i) = last.before.slots[i + 1]

\* A Resize from three or more elements to one.
C14_Witness ==
    /\ last.op = "Resize" /\ last.k = 1 /\ last.before.vec.size_ >= 3
    /\ Cur.capacity_ >= 3 /\ Cur.size_ = 1
    /\ last.before.slots[1].val # Default

\* operator new threw in the last call.
AllocFailed == \E j \in 1..Len(log) : log[j].t = "bad_alloc"

\* C15: when the allocation of new storage fails in PushBack, EmplaceBack,
\* Insert, Emplace, Reserve, Resize or copy assignment, the failed
\* allocation is the only step of the call (no element was constructed,
\* assigned or destroyed and nothing was released), the call throws, and
\* both vectors have the fields and the slots they had before the call.
C15_AllocFailureFirst ==
    (last.op \in Growths \cup {"operator=(const&)"} /\ AllocFailed) =>
        /\ Len(log) = 1
        /\ last.thrown
        /\ Snap(heap, Cur) = last.before
        /\ Snap(heap, CurOther) = last.other

\* The allocation fails in a copy assignment to a vector that holds an
\* element and is too small for the source.
C15_Witness ==
    /\ last.op = "operator=(const&)" /\ last.v # last.w /\ AllocFailed
    /\ last.before.vec.size_ >= 1
    /\ last.other.vec.size_ > last.before.vec.capacity_

\* C16: copy assignment of a vector to itself, move assignment of it to
\* itself and Swap with itself leave its size, capacity, buffer and every
\* slot of its block as they were, perform no step at all (no element is
\* constructed, assigned or destroyed, nothing is allocated or released)
\* and do not throw.
C16_SelfAssignNoOp ==
    (last.op \in {"operator=(const&)", "operator=(&&)", "Swap"} /\ last.v = last.w) =>
        /\ Snap(heap, Cur) = last.before
        /\ WellFormed(heap, Cur)
        /\ log = <<>>
        /\ ~last.thrown

\* A vector holding two elements that are not alike, with spare capacity,
\* is move assigned to itself.
C16_Witness ==
    /\ last.op = "operator=(&&)" /\ last.v = last.w
    /\ last.before.vec.size_ = 2 /\ last.before.vec.capacity_ > 2
    /\ last.before.slots[1].val # last.before.slots[2].val
    /\ Cur.size_ = 2

\* C17: in a PushBack, EmplaceBack, Insert, Emplace or Reserve that has
\* allocated new storage, the allocation is the first step; the new element
\* (if the call has one) is constructed next, in slot k of the new block;
\* then the old elements are constructed in the new block, each in its final
\* slot; then the old elements are destroyed; then the storages are
\* exchanged, and last the old block is released. When the call throws, no
\* old element has been destroyed, no exchange has happened and the vector
\* has the buffer, capacity and size it had.
C17_ReallocOrder ==
    (last.op \in Appends \cup Inserts \cup {"Reserve"} /\ last.realloc /\ NewBlock # Null) =>
        LET old == last.before.vec.buffer_
            n == last.before.vec.size_
            first == IF last.op = "Reserve" THEN 1 ELSE 2
            Tr == Steps({"copy", "move"}, NewBlock)
            De == Steps({"destroy"}, old)
            Sw == Steps({"swap"}, NewBlock)
        IN  /\ log[1].t = "alloc"
            /\ last.op # "Reserve" =>
                  /\ Len(log) >= 2
                  /\ log[2].t \in {"emplace", "throw"}
                  /\ log[2].b = NewBlock /\ log[2].i = last.k
            /\ \A t \in Tr : t > first
            /\ last.thrown =>
                  /\ De = {} /\ Sw = {} /\ Steps({"dealloc"}, old) = {}
                  /\ Cur = last.before.vec
            /\ ~last.thrown =>
                  /\ Cardinality(Tr) = n /\ Cardinality(De) = n /\ Cardinality(Sw) = 1
                  /\ \A i \in 0..(n - 1) :
                        /\ \E t \in Tr :
                              log[t].i = (IF last.op # "Reserve" /\ i >= last.k THEN i + 1 ELSE i)
                        /\ \E d \in De : log[d].i = i
                  /\ \A t \in Tr, d \in De : t < d
                  /\ \A d \in De, w \in Sw : d < w
                  /\ Len(log) = first + 2 * n + 1 + (IF old = Null THEN 0 ELSE 1)
                  /\ old # Null =>
                        /\ log[Len(log)].t = "dealloc" /\ log[Len(log)].b = old
                        /\ \A w \in Sw : w = Len(log) - 1
                  /\ Cur.buffer_ = NewBlock

\* An Insert between two elements that has to reallocate.
C17_Witness ==
    /\ last.op = "Insert" /\ last.realloc /\ ~last.thrown
    /\ last.before.vec.size_ = 2 /\ last.k = 1
    /\ Len(log) = 8

\* C18: when PushBack or Insert at position k is given a reference to
\* element i of the vector itself and returns, the vector holds its old
\* elements with the value element i had before the call put at position k
\* (so the new element has that value and every other element its own), the
\* first k in their slots' order and the rest one place up, on both paths;
\* and the argument was a live element when it was read.
C18_AliasedArgument ==
    (last.op \in {"PushBack", "Insert"} /\ last.alias >= 0 /\ ~last.thrown) =>
        /\ Cur.size_ = last.before.vec.size_ + 1
        /\ WellFormed(heap, Cur)
        /\ Elems(heap, Cur)
              = InsertedAt(SnapElems(last.before), last.k, last.before.slots[last.alias + 1].val)
        /\ \A j \in 1..Len(log) : log[j].t = "emplace" => log[j].ok

\* Insert without reallocation, at a position in front of the element the
\* argument refers to, which differs from the element before it.
C18_Witness ==
    /\ last.op = "Insert" /\ ~last.realloc /\ ~last.thrown
    /\ last.alias >= 1 /\ last.k <= last.alias
    /\ last.before.slots[last.alias + 1].val # last.before.slots[last.alias].val

\* C19 (as claimed): every step of every call respects the lifetime of
\* the slots it uses: a construction is in a raw slot and from a live
\* source, an assignment is to a live element and from a live source, and a
\* destruction is of a live element.
C19_NoLifetimeMisuse ==
    \A j \in 1..Len(log) :
        log[j].t \in Constructions \cup Assignments \cup {"destroy"} => log[j].ok

\* C20 (as claimed): when a move assignment throws in an Insert or Emplace
\* that keeps the storage and is not at the end (the last element has been
\* move constructed one slot up by then), size and capacity are what they
\* were, every slot of [0, size) holds a live element and no slot of
\* [size, capacity) does (so that the destructor, which destroys the slots
\* of [0, size), destroys every element that is alive).
C20_ShiftThrowKeepsInvariant ==
    (/\ last.op \in Inserts /\ ~last.realloc /\ last.thrown
     /\ last.k < last.before.vec.size_
     /\ Steps({"move"}, last.before.vec.buffer_) # {}) =>
        /\ Cur.size_ = last.before.vec.size_
        /\ Cur.capacity_ = last.before.vec.capacity_
        /\ WellFormed(heap, Cur)

====
